---- MODULE Spec2Model ----
(***************************************************************************)
(* Dataset loaders of tensorlight.                                         *)
(*                                                                         *)
(* Spec, SpecWrap: the index cursor (_row, _indices) of the UCF-101        *)
(* evaluation loader and of the MNIST loader built on AbstractDataset;     *)
(* one step is one get_batch or reset call.                                *)
(*                                                                         *)
(* SpecRetry, SpecRetryFair: the body of the per-item loop of get_batch in *)
(* the Ms. Pac-Man and UCF-101 evaluation loaders; one step is the         *)
(* preparation of a batch item or one iteration of its crop-retry loop.    *)
(*                                                                         *)
(* SpecSample: the same per-item loop over every crop size a constructor   *)
(* accepts, followed by the scaling of the batch to floats.                *)
(*                                                                         *)
(* SpecFilter: enough_l2_movement of ms_pacman.py applied to short frame   *)
(* sequences.  SpecCatalog: the Ms. Pac-Man constructor scanning the       *)
(* sequence folders.  SpecSize: the sizes a dataset reports while batches  *)
(* are served and the dataset is reset.                                    *)
(*                                                                         *)
(* SpecCalls: get_batch and reset of the Ms. Pac-Man loader, item by item, *)
(* and of the UCF-101 evaluation loader.  SpecFixed: the cursor under a    *)
(* caller that asks for the same batch size in every call.                 *)
(*                                                                         *)
(* SpecTrain, SpecTrainFair: the crop loop (tf.while_loop) of the UCF-101  *)
(* training loader for one example.  SpecReader: VideoReader.              *)
(***************************************************************************)
EXTENDS Integers, Sequences, FiniteSets, TLC

(* ------------------------------ bounds --------------------------------- *)
\* largest catalog (real_dataset_size) of the cursor specification
MaxTrueSize == 5
\* largest repetitions_per_epoche
MaxRepetitions == 2
\* np.random.shuffle yields every permutation of lists up to this length;
\* longer lists draw from the rotations of the list and of its reversal
MaxFullShuffle == 3

\* input_seq_length and target_seq_length of the sampled loaders
InputLen == 2
TargetLen == 1
\* frames stored beyond the sampled window in every sequence
SpareFrames == 0
\* the crops tried are CropSlack pixels narrower than the source frame
CropSlack == 2
\* the synthetic frames: a strip of StripWidth columns at the right edge whose
\* pixels change by PixelStep from frame to frame
StripWidth == 3
PixelStep == 25
\* the motion filter is tried on sequences of 0..MaxFilterFrames frames of
\* 1 x 1 and of FilterSide x FilterSide pixels
MaxFilterFrames == 3
FilterSide == 21
\* sequence folders on disk beyond the last one of the validation range
ExtraFolders == 2
\* the longest video read by a VideoReader
MaxVideoFrames == 3

(* -------------------------- program constants -------------------------- *)
MSPAC_FRAME_HEIGHT == 210
MSPAC_FRAME_WIDTH == 160
UCF_FRAME_HEIGHT == 240
UCF_FRAME_WIDTH == 320
FRAME_CHANNELS == 3
HUD_Y == 172
MAX_TRIES == 100
MIN_L2_DIFF_PER_FRAME == 25
\* np.float32(255): the divisor of the returned arrays, the largest uint8
PIXEL_SCALE == 255
\* the index_range of MsPacmanTrainDataset and of MsPacmanValidDataset
TRAIN_RANGE == <<0, 465>>
VALID_RANGE == <<466, 516>>

VARIABLES
    kind,                   \* which loader class the object is
    real_dataset_size,      \* true catalog size
    double_with_flipped,
    repetitions_per_epoche,
    dataset_size,           \* AbstractDataset.size, the externally visible size
    file_name_list,         \* the catalog (MNIST: the data array)
    index_range,            \* Ms. Pac-Man: the index_range given to __init__
    numbered_folder_paths,  \* Ms. Pac-Man: the sequence folders of the catalog
    data,                   \* the stored frame sequences, one per catalog entry
    indices,                \* self._indices, the permutation
    row,                    \* self._row
    last,                   \* the last call: operation, argument, outcome
    batch,                  \* what the last get_batch returned
    served,                 \* samples returned since the last reset(), by virtual row
    sinceAuto,              \* samples returned since the last automatic reset,
                            \* counted while no explicit reset() intervenes
                            \* (-1: no automatic reset yet, or a reset() since)
    resetsInRow,            \* consecutive reset() calls just made (saturating)
    \* --- the batch item being sampled ---
    crop_size,              \* self._crop_size: None or <<height, width>>
    skip_less_movement,
    random_flip,
    pc,                     \* "idle", "loop" (in the retry loop), "done" (item
                            \* sampled), "scaled" (arrays divided), "raised"
                            \* (get_batch left by an exception); "new" / "failed":
                            \* constructor not yet run / left by an exception;
                            \* "filter" / "filtered": a separate filter call
    current_seq,            \* the frames of the chosen sequence
    start_idx,              \* start_idx / start_t
    virtual_row,            \* UCF-101: self._row + i of the item
    retry,                  \* the loop variable
    offset_x,
    offset_y,
    do_flip,
    drawn_flip,             \* the flip draw made for the item before the loop
    crops_inside,           \* every crop cut for the item so far lay inside the
                            \* frame and had the crop size
    frames_read,            \* frames of the chosen sequence read from disk so far
    read_log,               \* their frame indices, in the order they were read
    verdict,                \* <<r>>: the last separate call of enough_l2_movement
                            \* returned r; <<>>: none made
    candidates,             \* candidate input windows built for the item
    rejected,               \* candidates the motion filter has turned down
    filterCalls,            \* evaluations of enough_l2_movement for the item
    inputs,                 \* batch_inputs[batch] / seq_input_list[-1]
    targets,                \* batch_targets[batch] / seq_target_list[-1]
    \* --- the caller ---
    fixed_batch_size,       \* the batch_size a caller passes in every call (0: the
                            \* caller passes any)
    \* --- VideoReader ---
    video,                  \* self._video: the frames of the file
    frame_idx,              \* self._frame_idx
    frame                   \* what the last next_frame returned (<<>>: None or no
                            \* call yet)

cursorVars == <<indices, row, last, batch, served, sinceAuto, resetsInRow>>

samplerConfig == <<crop_size, skip_less_movement, random_flip>>

itemVars == <<pc, current_seq, start_idx, virtual_row, retry, offset_x, offset_y,
              do_flip, drawn_flip, crops_inside, frames_read, read_log, verdict,
              candidates, rejected, filterCalls, inputs, targets>>

readerVars == <<video, frame_idx, frame>>

vars == <<kind, real_dataset_size, double_with_flipped, repetitions_per_epoche,
          dataset_size, file_name_list, index_range, numbered_folder_paths, data,
          cursorVars, samplerConfig, itemVars, fixed_batch_size, readerVars>>

config == <<kind, real_dataset_size, double_with_flipped, repetitions_per_epoche,
            dataset_size, file_name_list, index_range, numbered_folder_paths,
            data>>

(* ------------------------------ helpers -------------------------------- *)
Min(a, b) == IF a < b THEN a ELSE b

Range(s) == {s[i] : i \in 1..Len(s)}

Reverse(s) == [i \in 1..Len(s) |-> s[Len(s) + 1 - i]]

Rotate(s, k) == [i \in 1..Len(s) |-> s[((i - 1 + k) % Len(s)) + 1]]

\* Python's s[a:b] on a list, for 0 <= a and 0 <= b (both clipped to len(s))
PySlice(s, a, b) == SubSeq(s, Min(a, Len(s)) + 1, Min(b, Len(s)))

\* range(n) / np.arange(n)
PyRange(n) == [i \in 1..n |-> i - 1]

\* a list built for the doubled dataset
ShuffleOfDoubledList(s) == {s \o Reverse(s)}

\* draws with replacement instead of a rearrangement
ShuffleWithReplacement(s) ==
    {[i \in 1..Len(s) |-> s[((i * k) % Len(s)) + 1]] : k \in 0..(Len(s) - 1)}

\* the outcomes of np.random.shuffle(s): a rearrangement of s in place
ShuffleOutcomes(s) ==
    IF Len(s) <= MaxFullShuffle
    THEN {[i \in 1..Len(s) |-> s[p[i]]] : p \in Permutations(1..Len(s))}
    ELSE {Rotate(s, k) : k \in 0..(Len(s) - 1)}
         \cup {Rotate(Reverse(s), k) : k \in 0..(Len(s) - 1)}

\* the file names written by preprocess_videos, one per stored sequence
FileName(i) == 100 + i

(* --------------------------- construction ------------------------------ *)
\* UCF101BaseEvaluationDataset.__init__: the size shown to the outside
FakeSizeFlipOnly(n, dbl, rep) == IF dbl THEN n * 2 ELSE n

FakeSize(n, dbl, rep) == (IF dbl THEN n * 2 ELSE n) * rep

\* the record of a call: op, the batch_size asked for, whether the call made
\* the automatic reset, whether it returned (ok) or raised, the length of the
\* index window, and the samples returned between the automatic reset before
\* and the one this call made (gap, -1 if not counted)
NoCall(op) == [op |-> op, b |-> 0, auto |-> FALSE, ok |-> TRUE, len |-> 0, gap |-> -1]

InitHistory ==
    /\ last = NoCall("init")
    /\ batch = [inputs |-> <<>>, targets |-> <<>>]
    /\ served = <<>>
    /\ sinceAuto = -1
    /\ resetsInRow = 0

\* crop_size = None
None == <<>>

\* the locals of the loop over the batch items before the first item
ItemCleared ==
    /\ current_seq = <<>>
    /\ start_idx = 0
    /\ virtual_row = 0
    /\ retry = 0
    /\ offset_x = 0
    /\ offset_y = 0
    /\ do_flip = FALSE
    /\ drawn_flip = FALSE
    /\ crops_inside = TRUE
    /\ frames_read = 0
    /\ read_log = <<>>
    /\ verdict = <<>>
    /\ candidates = 0
    /\ rejected = 0
    /\ filterCalls = 0
    /\ inputs = <<>>
    /\ targets = <<>>

\* no batch item is being sampled
NoItem ==
    /\ pc = "idle"
    /\ ItemCleared

\* no VideoReader is open
NoReader ==
    /\ video = <<>>
    /\ frame_idx = 0
    /\ frame = None

\* the cursor specifications leave sampling out: no frames, no cropping, no
\* gating
NoSampler ==
    /\ index_range = None
    /\ numbered_folder_paths = <<>>
    /\ data = <<>>
    /\ crop_size = None
    /\ skip_less_movement = FALSE
    /\ random_flip = FALSE
    /\ NoItem

UcfEvalInit(n) ==
    /\ kind = "ucf_eval"
    /\ real_dataset_size = n
    /\ double_with_flipped \in BOOLEAN
    /\ repetitions_per_epoche \in 1..MaxRepetitions
    /\ dataset_size = FakeSize(n, double_with_flipped, repetitions_per_epoche)
    /\ file_name_list = [i \in 1..n |-> FileName(i - 1)]
    /\ indices = PyRange(n)
    /\ row = 0
    /\ InitHistory

\* AbstractDataset.__init__ (called by MNISTBaseDataset.__init__): ends in reset()
MnistInit(n) ==
    /\ kind = "mnist"
    /\ real_dataset_size = n
    /\ double_with_flipped = FALSE
    /\ repetitions_per_epoche = 1
    /\ dataset_size = n
    /\ file_name_list = [i \in 1..n |-> FileName(i - 1)]
    /\ indices \in ShuffleOutcomes(PyRange(n))
    /\ row = 0
    /\ InitHistory

Init ==
    /\ \E n \in 1..MaxTrueSize : UcfEvalInit(n) \/ MnistInit(n)
    /\ NoSampler
    /\ fixed_batch_size = 0
    /\ NoReader

(* ------------------------------ reset ---------------------------------- *)
ResetRowKept(r) == r

\* AbstractDataset.reset / UCF101BaseEvaluationDataset.reset
ResetRow(r) == 0

Reset ==
    /\ row' = ResetRow(row)
    /\ indices' \in ShuffleOutcomes(indices)
    /\ last' = NoCall("reset")
    /\ batch' = [inputs |-> <<>>, targets |-> <<>>]
    /\ served' = <<>>
    /\ resetsInRow' = Min(resetsInRow + 1, 2)
    /\ sinceAuto' = -1
    /\ UNCHANGED <<config, fixed_batch_size, readerVars, samplerConfig, itemVars>>

(* --------------------- UCF-101 evaluation get_batch -------------------- *)
NeedsResetPastEnd(r, b, size) == r >= size

NeedsResetStrict(r, b, size) == r + b > size

\* get_batch: the reset check made before anything is read
NeedsReset(r, b, size) == r + b >= size

IndRangeNoWrap(perm, r, b, n) == PySlice(perm, r % n, (r % n) + b)

IndRangeHeadFirst(perm, r, b, n) ==
    LET start == r % n
        end == (start + b) % n
    IN  IF start > end
        THEN PySlice(perm, 0, end) \o PySlice(perm, start, Len(perm))
        ELSE PySlice(perm, start, end)

\* get_batch: the window of catalog indices for the batch starting at row r
IndRange(perm, r, b, n) ==
    LET start == r % n
        end == (start + b) % n
    IN  IF start > end
        THEN PySlice(perm, start, Len(perm)) \o PySlice(perm, 0, end)
        ELSE PySlice(perm, start, end)

BatchSizeNotAsserted(ind_range, b) == TRUE

\* get_batch: assert len(ind_range) == batch_size
BatchSizeAsserted(ind_range, b) == Len(ind_range) = b

DoFlipOddFirst(vrow, data_size) ==
    \/ vrow < data_size /\ vrow % 2 = 1
    \/ vrow >= data_size /\ vrow % 2 = 0

\* get_batch: the horizontal flip rule of double_with_flipped
DoFlip(vrow, data_size) ==
    \/ vrow < data_size /\ vrow % 2 = 0
    \/ vrow >= data_size /\ vrow % 2 = 1

\* get_batch: delayed increment of the row counter
AdvanceRow(r, b) == r + b

\* the samples returned since the last automatic reset, after a call that
\* returned k samples (auto: the call made an automatic reset first)
Counted(since, auto, k, size) ==
    IF auto THEN Min(k, size)
    ELSE IF since < 0 THEN since
    ELSE Min(since + k, size)

Sample(f, fl) == [file |-> f, flip |-> fl]

UcfGetBatch(batch_size) ==
    /\ kind = "ucf_eval"
    /\ LET fake_size == dataset_size
           data_size == real_dataset_size
           auto == NeedsReset(row, batch_size, fake_size)
           row1 == IF auto THEN ResetRow(row) ELSE row
       IN  \E perm1 \in (IF auto THEN ShuffleOutcomes(indices) ELSE {indices}) :
             LET ind_range == IndRange(perm1, row1, batch_size, data_size)
                 ok == BatchSizeAsserted(ind_range, batch_size)
                 flips == [i \in 1..Len(ind_range) |->
                             double_with_flipped /\ DoFlip(row1 + i - 1, data_size)]
                 items == [i \in 1..Len(ind_range) |->
                             Sample(file_name_list[ind_range[i] + 1], flips[i])]
                 base == IF auto THEN <<>> ELSE served
             IN  /\ indices' = perm1
                 /\ last' = [op |-> "get_batch", b |-> batch_size, auto |-> auto, ok |-> ok,
                              len |-> Len(ind_range),
                              gap |-> IF auto THEN sinceAuto ELSE -1]
                 /\ resetsInRow' = 0
                 /\ IF ok
                    THEN /\ row' = AdvanceRow(row1, batch_size)
                         /\ batch' = [inputs |-> items, targets |-> items]
                         /\ served' = base \o [i \in 1..Len(ind_range) |->
                                [vrow |-> row1 + i - 1, idx |-> ind_range[i], flip |-> flips[i]]]
                         /\ sinceAuto' = Counted(sinceAuto, auto, batch_size, fake_size)
                    ELSE \* AssertionError: nothing after the assert is executed
                         /\ row' = row1
                         /\ batch' = [inputs |-> <<>>, targets |-> <<>>]
                         /\ served' = base
                         /\ sinceAuto' = Counted(sinceAuto, auto, 0, fake_size)
    /\ UNCHANGED <<config, fixed_batch_size, readerVars, samplerConfig, itemVars>>

(* --------------------------- MNIST get_batch --------------------------- *)
MnistGetBatch(batch_size) ==
    /\ kind = "mnist"
    /\ LET auto == row + batch_size >= real_dataset_size
           row1 == IF auto THEN ResetRow(row) ELSE row
       IN  \E perm1 \in (IF auto THEN ShuffleOutcomes(indices) ELSE {indices}) :
             LET start == row1
                 end == start + batch_size
                 ind_range == PySlice(perm1, start, end)
                 items == [i \in 1..Len(ind_range) |->
                             Sample(file_name_list[ind_range[i] + 1], FALSE)]
             IN  /\ indices' = perm1
                 /\ row' = row1 + batch_size
                 /\ last' = [op |-> "get_batch", b |-> batch_size, auto |-> auto, ok |-> TRUE,
                              len |-> Len(ind_range),
                              gap |-> IF auto THEN sinceAuto ELSE -1]
                 /\ batch' = [inputs |-> items, targets |-> items]
                 /\ served' = (IF auto THEN <<>> ELSE served) \o
                        [i \in 1..Len(ind_range) |->
                            [vrow |-> row1 + i - 1, idx |-> ind_range[i], flip |-> FALSE]]
                 /\ sinceAuto' = Counted(sinceAuto, auto, Len(ind_range), dataset_size)
                 /\ resetsInRow' = 0
    /\ UNCHANGED <<config, fixed_batch_size, readerVars, samplerConfig, itemVars>>

(* ---------------------------- specifications --------------------------- *)
BatchSizes == 1..(MaxTrueSize + 1)

Next ==
    \/ \E b \in BatchSizes : UcfGetBatch(b)
    \/ \E b \in BatchSizes : MnistGetBatch(b)
    \/ Reset

Spec == Init /\ [][Next]_vars

\* the wrap-around scenario: ten stored sequences read in batches of four
InitWrap == UcfEvalInit(10) /\ NoSampler /\ fixed_batch_size = 0 /\ NoReader

NextWrap ==
    \/ UcfGetBatch(4)
    \/ Reset

SpecWrap == InitWrap /\ [][NextWrap]_vars

(* ------------------------ sampling a batch item ------------------------ *)
Max(a, b) == IF a > b THEN a ELSE b

FrameHeight(k) == IF k = "mspacman" THEN MSPAC_FRAME_HEIGHT ELSE UCF_FRAME_HEIGHT

FrameWidth(k) == IF k = "mspacman" THEN MSPAC_FRAME_WIDTH ELSE UCF_FRAME_WIDTH

\* the values of random.randint(lo, hi) that are followed: both ends and the
\* value next to the lower end
RandInt(lo, hi) == {v \in {lo, lo + 1, hi} : lo <= v /\ v <= hi}

\* a stored frame: every pixel of the right strip has the value strip, every
\* other pixel the value bg, in all channels
Frame(b, st) == [bg |-> b, strip |-> st]

Blink(i) == IF i % 2 = 0 THEN PixelStep ELSE 0

\* the stored sequences offered to the sampler: a still one, one that moves
\* in the right strip only, and one that moves everywhere
SourceSeqs ==
    LET n == InputLen + TargetLen + SpareFrames
    IN  { [i \in 1..n |-> Frame(0, 0)],
          [i \in 1..n |-> Frame(0, Blink(i))],
          [i \in 1..n |-> Frame(Blink(i), Blink(i))] }

\* the crop sizes offered: None, the frame less the slack, and for Ms. Pac-Man
\* a crop that ends one row above the HUD when placed at the top
CropSizes(k) ==
    {None, <<FrameHeight(k) - CropSlack, FrameWidth(k) - CropSlack>>}
    \cup (IF k = "mspacman" THEN {<<HUD_Y - 1, FrameWidth(k) - CropSlack>>} ELSE {})

\* the extent of the numpy slice a[lo:(lo + len)] on an axis of length size
Slice(lo, len, size) == Max(0, Min(lo + len, size) - Min(lo, size))

\* the value kept by a uint8 array
Uint8(v) == v % 256

\* frame fidx of the sequence, cropped to h x w at (oy, ox) and flipped or
\* not, as written by attempt number try
Cut(fidx, oy, ox, h, w, fl, try) ==
    [fidx |-> fidx, oy |-> oy, ox |-> ox, h |-> h, w |-> w, flip |-> fl, try |-> try]

\* np.sum(np.square(a - b)) of two cut frames of the sequence seq, in units
\* of the 0..255 pixel scale
SqDiff(seq, k, a, b) ==
    LET fa == seq[a.fidx + 1]
        fb == seq[b.fidx + 1]
        stripCols == Min(a.w, Max(0, a.ox + a.w - (FrameWidth(k) - StripWidth)))
        bgCols == a.w - stripCols
    IN  a.h * FRAME_CHANNELS *
            ( bgCols * (fa.bg - fb.bg) * (fa.bg - fb.bg)
            + stripCols * (fa.strip - fb.strip) * (fa.strip - fb.strip) )

ReachesThresholdByteScale(sq, n) == sq >= MIN_L2_DIFF_PER_FRAME * 65025 * n

\* diff >= MIN_L2_DIFF_PER_FRAME * n, diff being the sum of squares divided by
\* 127.5 * 127.5 = 65025 / 4
ReachesThreshold(sq, n) == 4 * sq >= MIN_L2_DIFF_PER_FRAME * 65025 * n

\* the backward walk of enough_l2_movement from pair i down to pair 1;
\* zeroCheck: the loader tests the last pair for diff == 0
RECURSIVE WalkBack(_, _, _, _, _, _)
WalkBack(seq, k, frames, i, diff, zeroCheck) ==
    IF i < 1 THEN FALSE
    ELSE LET d == diff + SqDiff(seq, k, frames[i], frames[i + 1])
         IN  IF zeroCheck /\ i = Len(frames) - 1 /\ d = 0 THEN FALSE
             ELSE IF ReachesThreshold(d, Len(frames)) THEN TRUE
             ELSE WalkBack(seq, k, frames, i - 1, d, zeroCheck)

EnoughL2MovementNoZeroCheck(seq, k, frames) ==
    WalkBack(seq, k, frames, Len(frames) - 1, 0, FALSE)

\* ms_pacman.enough_l2_movement / ucf101.enough_l2_movement
EnoughL2Movement(seq, k, frames) ==
    WalkBack(seq, k, frames, Len(frames) - 1, 0, k = "mspacman")

MaxStartClamped(count, total) == Max(0, count - total)

MaxStartInputsOnly(count, total) == count - (total - TargetLen)

\* the upper end of the start draw: frames of the sequence less the window
MaxStart(count, total) == count - total

MaxOffsetWholeFrame(size, crop) == size - 1

\* the upper end of an offset draw: frame extent less crop extent
MaxOffset(size, crop) == size - crop

HudVisibleBelowOnly(oy, h) == oy > HUD_Y

\* Ms. Pac-Man: the crop of height h at offset_y = oy reaches into the HUD
HudVisible(oy, h) == oy + h > HUD_Y

\* a crop of crop at (ox, oy) lies in the frame and has the crop size
CropInside(k, crop, ox, oy) ==
    \/ crop = None
    \/ /\ 0 <= ox /\ ox <= FrameWidth(k) - crop[2]
       /\ 0 <= oy /\ oy <= FrameHeight(k) - crop[1]
       /\ Slice(oy, crop[1], FrameHeight(k)) = crop[1]
       /\ Slice(ox, crop[2], FrameWidth(k)) = crop[2]

LastTryNotExempt(k, crop, skip, r) == crop # None /\ skip

MotionGatedAlways(k, crop, skip, r) == skip /\ (k = "mspacman" => r # MAX_TRIES - 1)

\* whether the candidate of loop pass r is put to the motion filter
MotionGated(k, crop, skip, r) ==
    IF k = "mspacman"
    THEN crop # None /\ skip /\ r # MAX_TRIES - 1
    ELSE crop # None /\ skip

LocalsOfFirstPass(goOn, ox, oy, ins) ==
    /\ offset_x' = ox
    /\ offset_y' = oy
    /\ inputs' = IF inputs = <<>> THEN ins ELSE inputs

\* the offsets and the cut input frames of a loop pass.  When the pass ends in
\* `continue` and another pass follows, they are dead: the next pass draws
\* and writes them anew before anything reads them, so they are not kept.
Locals(goOn, ox, oy, ins) ==
    /\ offset_x' = IF goOn THEN 0 ELSE ox
    /\ offset_y' = IF goOn THEN 0 ELSE oy
    /\ inputs' = IF goOn THEN <<>> ELSE ins

\* Ms. Pac-Man: the frame indices read by the pre-load of the input frames
InputFramesRead(start) == [i \in 1..InputLen |-> start + i - 1]

TargetFramesReadEveryPass(accepted, start) ==
    [i \in 1..TargetLen |-> start + InputLen + i - 1]

\* Ms. Pac-Man: the frame indices read by a loop pass: the target frames, when
\* the pass gets past the motion gate
TargetFramesRead(accepted, start) ==
    IF accepted THEN [i \in 1..TargetLen |-> start + InputLen + i - 1] ELSE <<>>

\* the first lines of the loop body over the batch items: the sequence is
\* chosen, random.randint draws the start (ValueError when the sequence is
\* shorter than the window); UCF-101 has read the whole file before the draw,
\* Ms. Pac-Man reads the input frames after it
StartItem ==
    /\ pc \in {"idle", "done", "raised", "scaled"}
    /\ kind \in {"mspacman", "ucf_eval"}
    /\ \E s \in 1..Len(data) :
         LET starts == RandInt(0, MaxStart(Len(data[s]), InputLen + TargetLen))
         IN  /\ current_seq' = data[s]
             /\ start_idx' \in (IF starts = {} THEN {0} ELSE starts)
             /\ retry' = 0 /\ offset_x' = 0 /\ offset_y' = 0
             /\ rejected' = 0 /\ filterCalls' = 0
             /\ crops_inside' = TRUE
             /\ virtual_row' \in (IF kind = "mspacman" THEN {0}
                                  ELSE {row + i : i \in 0..1})
             /\ IF starts = {}
                THEN /\ pc' = "raised"
                     /\ frames_read' = (IF kind = "mspacman" THEN 0 ELSE Len(data[s]))
                     /\ read_log' = (IF kind = "mspacman" THEN <<>>
                                     ELSE PyRange(Len(data[s])))
                     /\ do_flip' = FALSE /\ drawn_flip' = FALSE
                     /\ candidates' = 0
                     /\ inputs' = <<>> /\ targets' = <<>>
                ELSE IF kind = "mspacman"
                THEN \* flip draw, then the input frames are read
                     /\ do_flip' \in (IF random_flip THEN BOOLEAN ELSE {FALSE})
                     /\ drawn_flip' = do_flip'
                     /\ frames_read' = InputLen
                     /\ read_log' = InputFramesRead(start_idx')
                     /\ candidates' = 0
                     /\ inputs' = <<>> /\ targets' = <<>>
                     /\ pc' = "loop"
                ELSE /\ do_flip' = (double_with_flipped /\ DoFlip(virtual_row', real_dataset_size))
                     /\ drawn_flip' = do_flip'
                     /\ frames_read' = Len(data[s])
                     /\ read_log' = PyRange(Len(data[s]))
                     /\ IF crop_size # None
                        THEN /\ candidates' = 0
                             /\ inputs' = <<>> /\ targets' = <<>>
                             /\ pc' = "loop"
                        ELSE \* no loop: the uncropped window is the one candidate
                             /\ candidates' = 1
                             /\ inputs' = [i \in 1..InputLen |->
                                   Cut(start_idx' + i - 1, 0, 0, FrameHeight(kind),
                                       FrameWidth(kind), do_flip', 1)]
                             /\ targets' = [i \in 1..TargetLen |->
                                   Cut(start_idx' + InputLen + i - 1, 0, 0, FrameHeight(kind),
                                       FrameWidth(kind), do_flip', 1)]
                             /\ pc' = "done"
    /\ UNCHANGED <<config, fixed_batch_size, readerVars, cursorVars, samplerConfig, verdict>>

\* one pass of `for retry in range(MAX_TRIES)` of MsPacmanBaseDataset.get_batch;
\* random.randint raises ValueError when the crop is larger than the frame.
\* (The locals of the pass are bound by \E over one-element sets; enough is
\* the result of the filter where it is called.)
MsPacmanAttempt ==
    /\ kind = "mspacman"
    /\ pc = "loop"
    /\ LET xs == IF crop_size # None
                 THEN RandInt(0, MaxOffset(MSPAC_FRAME_WIDTH, crop_size[2])) ELSE {0}
           ys == IF crop_size # None
                 THEN RandInt(0, MaxOffset(MSPAC_FRAME_HEIGHT, crop_size[1])) ELSE {0}
       IN  IF xs = {} \/ ys = {}
           THEN /\ pc' = "raised"
                /\ UNCHANGED <<retry, offset_x, offset_y, do_flip, crops_inside,
                               frames_read, read_log, candidates, rejected,
                               filterCalls, inputs, targets>>
           ELSE \E ox \in xs, oy \in ys :
             \E h \in {IF crop_size # None
                       THEN Slice(oy, crop_size[1], MSPAC_FRAME_HEIGHT)
                       ELSE MSPAC_FRAME_HEIGHT},
                w \in {IF crop_size # None
                       THEN Slice(ox, crop_size[2], MSPAC_FRAME_WIDTH)
                       ELSE MSPAC_FRAME_WIDTH},
                flip1 \in {IF crop_size # None /\ HudVisible(oy, crop_size[1])
                           THEN FALSE ELSE do_flip},
                try \in {retry + 1},
                gated \in {MotionGated(kind, crop_size, skip_less_movement, retry)} :
             \E ins \in {[i \in 1..InputLen |->
                            Cut(start_idx + i - 1, oy, ox, h, w, flip1, try)]} :
             \E enough \in {IF gated THEN EnoughL2Movement(current_seq, kind, ins)
                            ELSE TRUE} :
             \E goOn \in {gated /\ ~enough /\ retry + 1 < MAX_TRIES} :
                 /\ do_flip' = flip1
                 /\ candidates' = candidates + 1
                 /\ filterCalls' = filterCalls + (IF gated THEN 1 ELSE 0)
                 /\ crops_inside' = (crops_inside /\ CropInside(kind, crop_size, ox, oy))
                 /\ Locals(goOn, ox, oy, ins)
                 /\ read_log' = read_log \o TargetFramesRead(~(gated /\ ~enough), start_idx)
                 /\ frames_read' = Len(read_log')
                 /\ IF gated /\ ~enough
                    THEN \* continue
                         /\ rejected' = rejected + 1
                         /\ retry' = retry + 1
                         /\ targets' = targets
                         /\ pc' = IF goOn THEN "loop" ELSE "done"
                    ELSE \* the targets are read and cut the same way; break
                         /\ rejected' = rejected
                         /\ retry' = retry
                         /\ targets' = [i \in 1..TargetLen |->
                               Cut(start_idx + InputLen + i - 1, oy, ox, h, w, flip1, try)]
                         /\ pc' = "done"
    /\ UNCHANGED <<config, fixed_batch_size, readerVars, cursorVars, samplerConfig, current_seq, start_idx,
                   virtual_row, drawn_flip, verdict>>

\* one pass of `for retry in xrange(MAX_TRIES)` of
\* UCF101BaseEvaluationDataset.get_batch; leaving the loop, the crop becomes
\* the window, is flipped by the virtual row and split in inputs and targets
UcfAttempt ==
    /\ kind = "ucf_eval"
    /\ pc = "loop"
    /\ \E ox \in RandInt(0, MaxOffset(UCF_FRAME_WIDTH, crop_size[2])),
          oy \in RandInt(0, MaxOffset(UCF_FRAME_HEIGHT, crop_size[1])) :
         \E try \in {retry + 1},
            h \in {Slice(oy, crop_size[1], UCF_FRAME_HEIGHT)},
            w \in {Slice(ox, crop_size[2], UCF_FRAME_WIDTH)},
            gated \in {MotionGated(kind, crop_size, skip_less_movement, retry)} :
         \E crop \in {[i \in 1..(InputLen + TargetLen) |->
                         Cut(start_idx + i - 1, oy, ox, h, w, do_flip, try)]} :
         \E enough \in {IF gated
                        THEN EnoughL2Movement(current_seq, kind, SubSeq(crop, 1, InputLen))
                        ELSE TRUE} :
         \E goOn \in {gated /\ ~enough /\ retry + 1 < MAX_TRIES} :
             /\ candidates' = candidates + 1
             /\ filterCalls' = filterCalls + (IF gated THEN 1 ELSE 0)
             /\ rejected' = rejected + (IF gated /\ ~enough THEN 1 ELSE 0)
             /\ retry' = IF gated /\ ~enough THEN retry + 1 ELSE retry
             /\ crops_inside' = (crops_inside /\ CropInside(kind, crop_size, ox, oy))
             /\ Locals(goOn, ox, oy, SubSeq(crop, 1, InputLen))
             /\ targets' = IF goOn THEN targets
                           ELSE SubSeq(crop, InputLen + 1, InputLen + TargetLen)
             /\ pc' = IF goOn THEN "loop" ELSE "done"
    /\ UNCHANGED <<config, fixed_batch_size, readerVars, cursorVars, samplerConfig, current_seq, start_idx,
                   virtual_row, do_flip, drawn_flip, frames_read, read_log, verdict>>

\* MsPacmanBaseDataset.__init__
MsPacmanInit(n) ==
    /\ kind = "mspacman"
    /\ real_dataset_size = n
    /\ double_with_flipped = FALSE
    /\ repetitions_per_epoche \in 1..MaxRepetitions
    /\ dataset_size = n * repetitions_per_epoche
    /\ file_name_list = [i \in 1..n |-> FileName(i - 1)]
    /\ indices = <<>>
    /\ row = 0
    /\ InitHistory

\* the elements of the set S in a list
SeqOf(S) == CHOOSE q \in [1..Cardinality(S) -> S] : Range(q) = S

InitRetry ==
    /\ MsPacmanInit(3) \/ UcfEvalInit(3)
    /\ repetitions_per_epoche = 1
    /\ index_range = None
    /\ numbered_folder_paths = <<>>
    /\ data = SeqOf(SourceSeqs)
    /\ crop_size \in CropSizes(kind)
    /\ skip_less_movement \in BOOLEAN
    /\ random_flip \in (IF kind = "mspacman" THEN BOOLEAN ELSE {FALSE})
    /\ NoItem
    /\ fixed_batch_size = 0
    /\ NoReader

NextRetry ==
    \/ StartItem
    \/ MsPacmanAttempt
    \/ UcfAttempt

SpecRetry == InitRetry /\ [][NextRetry]_vars

\* get_batch runs its loop to the end: a started item is worked on
SpecRetryFair ==
    InitRetry /\ [][NextRetry]_vars /\ WF_vars(MsPacmanAttempt) /\ WF_vars(UcfAttempt)

(* ----------------------- scaling the sampled arrays -------------------- *)
\* the columns of the cut frame c that lie in the strip
StripCols(k, c) == Min(c.w, Max(0, c.ox + c.w - (FrameWidth(k) - StripWidth)))

\* the pixel values the cut frame c of the sequence seq holds
PixelValues(seq, k, c) ==
    (IF c.h > 0 /\ c.w - StripCols(k, c) > 0 THEN {seq[c.fidx + 1].bg} ELSE {})
    \cup (IF c.h > 0 /\ StripCols(k, c) > 0 THEN {seq[c.fidx + 1].strip} ELSE {})

DivideBy127(v) == [num |-> 2 * v, den |-> PIXEL_SCALE]

\* v / np.float32(255), as the fraction num / den
DivideBy255(v) == [num |-> v, den |-> PIXEL_SCALE]

\* the values of the cut frame c in the returned array
Scaled(seq, k, c) == {DivideBy255(Uint8(v)) : v \in PixelValues(seq, k, c)}

\* the division that ends get_batch, for a batch of the one item sampled
ScaleToUnit ==
    /\ pc = "done"
    /\ batch' = [inputs |-> <<[i \in 1..Len(inputs) |->
                                 Scaled(current_seq, kind, inputs[i])]>>,
                 targets |-> <<[i \in 1..Len(targets) |->
                                 Scaled(current_seq, kind, targets[i])]>>]
    /\ pc' = "scaled"
    /\ UNCHANGED <<config, fixed_batch_size, readerVars, samplerConfig, indices, row, last, served, sinceAuto,
                   resetsInRow, current_seq, start_idx, virtual_row, retry,
                   offset_x, offset_y, do_flip, drawn_flip, crops_inside,
                   frames_read, read_log, verdict, candidates, rejected,
                   filterCalls, inputs, targets>>

(* --------------- sampling with any catalog and any crop size ----------- *)
StillSeq(n) == [i \in 1..n |-> Frame(0, 0)]

MovingSeq(n) == [i \in 1..n |-> Frame(Blink(i), Blink(i))]

BrightSeq(n) == [i \in 1..n |-> Frame(PIXEL_SCALE, PIXEL_SCALE)]

\* the catalogs offered: the three source sequences; two sequences longer than
\* the window; sequences shorter than the window (UCF-101: every serialized
\* sequence has serialized_sequence_length frames)
SampleCatalogs(k) ==
    LET total == InputLen + TargetLen
    IN  { SeqOf(SourceSeqs),
          <<MovingSeq(total + SpareFrames + 2), BrightSeq(total + SpareFrames + 2)>>,
          IF k = "mspacman"
          THEN <<MovingSeq(total), MovingSeq(total - 1)>>
          ELSE <<MovingSeq(total - 1), StillSeq(total - 1)>> }

\* the crop sizes a constructor may be given: those of CropSizes and crops as
\* high as, as wide as, as large as and higher than the frame
CtorCropSizes(k) ==
    CropSizes(k) \cup
    { <<FrameHeight(k), FrameWidth(k) - CropSlack>>,
      <<FrameHeight(k) - CropSlack, FrameWidth(k)>>,
      <<FrameHeight(k), FrameWidth(k)>>,
      <<FrameHeight(k) + 1, FrameWidth(k)>> }

\* UCF101TrainDataset.__init__ (the queue that feeds it is not modelled)
UcfTrainInit(n) ==
    /\ kind = "ucf_train"
    /\ real_dataset_size = n
    /\ double_with_flipped = FALSE
    /\ repetitions_per_epoche = 1
    /\ dataset_size = n
    /\ file_name_list = [i \in 1..n |-> FileName(i - 1)]
    /\ indices = <<>>
    /\ row = 0
    /\ InitHistory

\* the assertion on crop_size of the UCF-101 constructors; the Ms. Pac-Man
\* constructor has none
CropSizeChecked(k, crop) ==
    (k \in {"ucf_eval", "ucf_train"} /\ crop # None)
        => (FrameHeight(k) > crop[1] /\ FrameWidth(k) > crop[2])

InitSample ==
    /\ kind \in {"mspacman", "ucf_eval", "ucf_train"}
    /\ \E d \in SampleCatalogs(kind) :
         /\ data = d
         /\ MsPacmanInit(Len(d)) \/ UcfEvalInit(Len(d)) \/ UcfTrainInit(Len(d))
    /\ repetitions_per_epoche = 1
    /\ index_range = None
    /\ numbered_folder_paths = <<>>
    /\ crop_size \in CtorCropSizes(kind)
    /\ skip_less_movement \in BOOLEAN
    /\ random_flip \in (IF kind = "mspacman" THEN BOOLEAN ELSE {FALSE})
    /\ pc = (IF CropSizeChecked(kind, crop_size) THEN "idle" ELSE "failed")
    /\ ItemCleared
    /\ fixed_batch_size = 0
    /\ NoReader

NextSample ==
    \/ StartItem
    \/ MsPacmanAttempt
    \/ UcfAttempt
    \/ ScaleToUnit

SpecSample == InitSample /\ [][NextSample]_vars

(* ------------------- the motion filter called on its own --------------- *)
\* the frame sequences given to the filter
FilterSeqs ==
    LET px == {0, PixelStep, PIXEL_SCALE}
        frames == {Frame(b, st) : b \in px, st \in px}
    IN  UNION {[1..n -> frames] : n \in 0..MaxFilterFrames}

InitFilter ==
    /\ MsPacmanInit(1) \/ UcfEvalInit(1)
    /\ repetitions_per_epoche = 1
    /\ double_with_flipped = FALSE
    /\ index_range = None
    /\ numbered_folder_paths = <<>>
    /\ crop_size = None
    /\ skip_less_movement = FALSE
    /\ random_flip = FALSE
    /\ pc = "filter"
    /\ \E seq \in FilterSeqs, side \in {1, FilterSide} :
       \E ox \in {0, FrameWidth(kind) - side} :
         /\ data = <<seq>>
         /\ current_seq = seq
         /\ inputs = [i \in 1..Len(seq) |-> Cut(i - 1, 0, ox, side, side, FALSE, 0)]
    /\ start_idx = 0 /\ virtual_row = 0 /\ retry = 0
    /\ offset_x = 0 /\ offset_y = 0
    /\ do_flip = FALSE /\ drawn_flip = FALSE
    /\ crops_inside = TRUE /\ frames_read = 0 /\ read_log = <<>>
    /\ verdict = <<>>
    /\ candidates = 0 /\ rejected = 0 /\ filterCalls = 0
    /\ targets = <<>>
    /\ fixed_batch_size = 0
    /\ NoReader

\* enough_l2_movement(frames)
FilterCall ==
    /\ pc = "filter"
    /\ verdict' = <<EnoughL2Movement(current_seq, kind, inputs)>>
    /\ filterCalls' = filterCalls + 1
    /\ pc' = "filtered"
    /\ UNCHANGED <<config, fixed_batch_size, readerVars, cursorVars, samplerConfig, current_seq, start_idx,
                   virtual_row, retry, offset_x, offset_y, do_flip, drawn_flip,
                   crops_inside, frames_read, read_log, candidates, rejected,
                   inputs, targets>>

SpecFilter == InitFilter /\ [][FilterCall]_vars

(* ----------------- construction of the Ms. Pac-Man catalog ------------- *)
\* numbered_folder_paths.sort()
Sorted(paths) == SortSeq(paths, LAMBDA a, b : a < b)

IndexRangeExclusive(paths, range) ==
    IF range = None THEN paths
    ELSE PySlice(paths, range[1], range[2])

\* numbered_folder_paths[index_range[0]:index_range[1]+1], or all of them
IndexRange(paths, range) ==
    IF range = None THEN paths
    ELSE PySlice(paths, range[1], range[2] + 1)

\* the frames stored in a sequence folder
FramesIn(path) == SeqOf(SourceSeqs)[(path % Cardinality(SourceSeqs)) + 1]

\* the sequence folders found on disk, in the order the listing gives them
Listings ==
    LET counts == {0, 1, TRAIN_RANGE[2], TRAIN_RANGE[2] + 1, VALID_RANGE[1] + 1,
                   VALID_RANGE[2], VALID_RANGE[2] + 1,
                   VALID_RANGE[2] + 1 + ExtraFolders}
    IN  UNION {{PyRange(n), Reverse(PyRange(n)), Rotate(PyRange(n), n \div 2)} :
               n \in counts}

\* before MsPacmanBaseDataset.__init__ runs
InitCatalog ==
    /\ kind = "mspacman"
    /\ pc = "new"
    /\ index_range \in {TRAIN_RANGE, VALID_RANGE, None}
    /\ numbered_folder_paths \in Listings
    /\ data = <<>>
    /\ real_dataset_size = 0
    /\ dataset_size = 0
    /\ double_with_flipped = FALSE
    /\ repetitions_per_epoche \in 1..MaxRepetitions
    /\ file_name_list = <<>>
    /\ indices = <<>>
    /\ row = 0
    /\ InitHistory
    /\ crop_size = None
    /\ skip_less_movement \in BOOLEAN
    /\ random_flip \in BOOLEAN
    /\ ItemCleared
    /\ fixed_batch_size = 0
    /\ NoReader

\* MsPacmanBaseDataset.__init__ as called by MsPacmanTrainDataset,
\* MsPacmanValidDataset (index_range given) and MsPacmanTestDataset (None)
MsPacmanConstruct ==
    /\ kind = "mspacman"
    /\ pc = "new"
    /\ numbered_folder_paths' = IndexRange(Sorted(numbered_folder_paths), index_range)
    /\ data' = [i \in 1..Len(numbered_folder_paths') |->
                   FramesIn(numbered_folder_paths'[i])]
    /\ real_dataset_size' = Len(data')
    /\ dataset_size' = real_dataset_size' * repetitions_per_epoche
    /\ pc' = "idle"
    /\ UNCHANGED <<kind, double_with_flipped, repetitions_per_epoche, file_name_list,
                   index_range, cursorVars, samplerConfig, current_seq, start_idx, virtual_row,
                   retry, offset_x, offset_y, do_flip, drawn_flip, crops_inside,
                   frames_read, read_log, verdict, candidates, rejected, filterCalls,
                   inputs, targets, fixed_batch_size, readerVars>>

SpecCatalog == InitCatalog /\ [][MsPacmanConstruct]_vars

(* --------------------------- the visible size -------------------------- *)
\* MsPacmanBaseDataset.reset: pass
MsPacmanReset ==
    /\ kind = "mspacman"
    /\ last' = NoCall("reset")
    /\ resetsInRow' = Min(resetsInRow + 1, 2)
    /\ UNCHANGED <<config, fixed_batch_size, readerVars, samplerConfig, itemVars, indices, row, batch, served,
                   sinceAuto>>

InitSize ==
    /\ \E n \in 1..MaxTrueSize : UcfEvalInit(n) \/ MsPacmanInit(n)
    /\ NoSampler
    /\ fixed_batch_size = 0
    /\ NoReader

NextSize ==
    \/ \E b \in BatchSizes : UcfGetBatch(b)
    \/ kind = "ucf_eval" /\ Reset
    \/ MsPacmanReset

SpecSize == InitSize /\ [][NextSize]_vars

(* ----------------- the crop loop of the UCF-101 training loader -------- *)
\* tf.random_uniform([1], lo, hi, tf.int32): the values followed, hi excluded
TfRandomUniform(lo, hi) == {v \in {lo, lo + 1, hi - 1} : lo <= v /\ v < hi}

\* condition: diff, the sum over the pairs t, t + 1 of the input frames of the
\* crop, in units of the 0..255 pixel scale
RECURSIVE CropDiff(_, _, _, _)
CropDiff(seq, k, cropped, t) ==
    IF t < 1 THEN 0
    ELSE CropDiff(seq, k, cropped, t - 1) + SqDiff(seq, k, cropped[t], cropped[t + 1])

\* condition: tf.less(diff, limit), diff being the sum of the squares of twice
\* the differences on the scale [0, 1], limit MIN_L2_DIFF_PER_FRAME x inputs
NotEnoughMovement(seq, k, cropped) ==
    ~ReachesThreshold(CropDiff(seq, k, cropped, InputLen - 1), InputLen)

\* the initial value of the loop counter
LoopCounter(skip) == IF skip THEN MAX_TRIES ELSE 0

\* body: c = tf.maximum(0, c - 1)
CountDown(c) == Max(0, c - 1)

\* tf.random_crop of the window starting at start: the crop at (oy, ox), cut
\* as the crop number try
RandomCrop(start, oy, ox, crop, fh, fw, try) ==
    [i \in 1..(InputLen + TargetLen) |->
        Cut(start + i - 1, oy, ox, Slice(oy, crop[1], fh), Slice(ox, crop[2], fw),
            FALSE, try)]

\* the graph of UCF101TrainDataset.get_batch up to the while_loop, run for one
\* example: the record is read, the start drawn, the first crop made
TrainStart ==
    /\ kind = "ucf_train"
    /\ pc \in {"idle", "done", "raised"}
    /\ \E s \in 1..Len(data) :
         LET starts == TfRandomUniform(0, MaxStart(Len(data[s]), InputLen + TargetLen))
             xs == IF crop_size # None
                   THEN RandInt(0, MaxOffset(UCF_FRAME_WIDTH, crop_size[2])) ELSE {0}
             ys == IF crop_size # None
                   THEN RandInt(0, MaxOffset(UCF_FRAME_HEIGHT, crop_size[1])) ELSE {0}
         IN  /\ current_seq' = data[s]
             /\ frames_read' = Len(data[s])
             /\ read_log' = PyRange(Len(data[s]))
             /\ rejected' = 0 /\ filterCalls' = 0
             /\ crops_inside' = TRUE
             /\ IF starts = {}
                THEN /\ pc' = "raised"
                     /\ start_idx' = 0
                     /\ retry' = 0 /\ offset_x' = 0 /\ offset_y' = 0
                     /\ candidates' = 0
                     /\ inputs' = <<>> /\ targets' = <<>>
                ELSE \E st \in starts, ox \in xs, oy \in ys :
                       \E first \in {IF crop_size # None
                                     THEN RandomCrop(st, oy, ox, crop_size,
                                                     UCF_FRAME_HEIGHT, UCF_FRAME_WIDTH, 1)
                                     ELSE RandomCrop(st, 0, 0,
                                                     <<UCF_FRAME_HEIGHT, UCF_FRAME_WIDTH>>,
                                                     UCF_FRAME_HEIGHT, UCF_FRAME_WIDTH, 0)} :
                         /\ start_idx' = st
                         /\ offset_x' = ox /\ offset_y' = oy
                         /\ candidates' = IF crop_size # None THEN 1 ELSE 0
                         /\ inputs' = SubSeq(first, 1, InputLen)
                         /\ targets' = SubSeq(first, InputLen + 1, InputLen + TargetLen)
                         /\ retry' = LoopCounter(crop_size # None /\ skip_less_movement)
                         /\ pc' = IF crop_size # None /\ skip_less_movement
                                  THEN "loop" ELSE "done"
    /\ UNCHANGED <<config, fixed_batch_size, readerVars, cursorVars, samplerConfig,
                   virtual_row, do_flip, drawn_flip, verdict>>

\* tf.while_loop(condition, body, [counter, seq_data, first_crop]): one
\* evaluation of condition and, when it holds, of body
TrainLoop ==
    /\ kind = "ucf_train"
    /\ pc = "loop"
    /\ \E notEnough \in {NotEnoughMovement(current_seq, kind, inputs)} :
         /\ filterCalls' = filterCalls + 1
         /\ IF retry # 0 /\ notEnough
            THEN \E ox \in RandInt(0, MaxOffset(UCF_FRAME_WIDTH, crop_size[2])),
                    oy \in RandInt(0, MaxOffset(UCF_FRAME_HEIGHT, crop_size[1])) :
                 \E cropped \in {RandomCrop(start_idx, oy, ox, crop_size,
                                            UCF_FRAME_HEIGHT, UCF_FRAME_WIDTH,
                                            candidates + 1)} :
                   /\ offset_x' = ox /\ offset_y' = oy
                   /\ inputs' = SubSeq(cropped, 1, InputLen)
                   /\ targets' = SubSeq(cropped, InputLen + 1, InputLen + TargetLen)
                   /\ candidates' = candidates + 1
                   /\ rejected' = rejected + 1
                   /\ retry' = CountDown(retry)
                   /\ pc' = "loop"
            ELSE /\ pc' = "done"
                 /\ UNCHANGED <<offset_x, offset_y, inputs, targets, candidates,
                                rejected, retry>>
    /\ UNCHANGED <<config, fixed_batch_size, readerVars, cursorVars, samplerConfig,
                   current_seq, start_idx, virtual_row, do_flip, drawn_flip,
                   crops_inside, frames_read, read_log, verdict>>

StripSeq(n) == [i \in 1..n |-> Frame(0, Blink(i))]

\* the serialized sequences offered to the training loader: one frame longer
\* than the window and more, and as long as the window
TrainCatalogs ==
    LET n == InputLen + TargetLen + SpareFrames + 1
    IN  { <<StillSeq(n), StripSeq(n), MovingSeq(n)>>,
          <<BrightSeq(n + 1), MovingSeq(n + 1)>>,
          <<MovingSeq(InputLen + TargetLen)>> }

InitTrain ==
    /\ \E d \in TrainCatalogs :
         /\ data = d
         /\ UcfTrainInit(Len(d))
    /\ index_range = None
    /\ numbered_folder_paths = <<>>
    /\ crop_size \in CropSizes(kind)
    /\ skip_less_movement \in BOOLEAN
    /\ random_flip = FALSE
    /\ NoItem
    /\ fixed_batch_size = 0
    /\ NoReader

NextTrain ==
    \/ TrainStart
    \/ TrainLoop

SpecTrain == InitTrain /\ [][NextTrain]_vars

\* the session runs the while_loop to its end
SpecTrainFair == InitTrain /\ [][NextTrain]_vars /\ WF_vars(TrainLoop)

(* --------------- a caller that always asks for the same size ----------- *)
InitFixed ==
    /\ \E n \in 1..MaxTrueSize : UcfEvalInit(n)
    /\ NoSampler
    /\ fixed_batch_size \in 1..(dataset_size - 1)
    /\ NoReader

NextFixed ==
    \/ UcfGetBatch(fixed_batch_size)
    \/ Reset

SpecFixed == InitFixed /\ [][NextFixed]_vars

(* ------------------- get_batch and reset of both loaders --------------- *)
\* a Ms. Pac-Man dataset with its frame sequences, or a UCF-101 evaluation
\* dataset seen through its cursor
InitCalls ==
    /\ \/ /\ MsPacmanInit(Cardinality(SourceSeqs))
          /\ data = SeqOf(SourceSeqs)
          /\ crop_size \in CropSizes(kind)
          /\ skip_less_movement \in BOOLEAN
          /\ random_flip \in BOOLEAN
       \/ /\ \E n \in 1..MaxTrueSize : UcfEvalInit(n)
          /\ data = <<>>
          /\ crop_size = None
          /\ skip_less_movement = FALSE
          /\ random_flip = FALSE
    /\ repetitions_per_epoche = 1
    /\ index_range = None
    /\ numbered_folder_paths = <<>>
    /\ NoItem
    /\ fixed_batch_size = 0
    /\ NoReader

NextCalls ==
    \/ kind = "mspacman" /\ StartItem
    \/ MsPacmanAttempt
    \/ kind = "mspacman" /\ ScaleToUnit
    \/ pc # "loop" /\ MsPacmanReset
    \/ \E b \in BatchSizes : UcfGetBatch(b)
    \/ kind = "ucf_eval" /\ Reset

SpecCalls == InitCalls /\ [][NextCalls]_vars

(* ------------------------------ VideoReader ---------------------------- *)
\* skvideo.io.vread: the frames of a file of n frames
VideoOf(n) == [i \in 1..n |-> 200 + i]

\* the frame positions followed: from before the first frame by more than
\* the length of the longest video to beyond its end
FramePositions == (0 - MaxVideoFrames - 2)..(MaxVideoFrames + 2)

\* self._video[idx]: a negative index counts from the end; outside
\* [-len, len) there is no item (IndexError)
Indexable(v, idx) == 0 - Len(v) <= idx /\ idx < Len(v)

Item(v, idx) == IF idx >= 0 THEN v[idx + 1] ELSE v[Len(v) + idx + 1]

\* tt.utils.image.resize(frame, scale)
Resized(f, scale) == [img |-> f, scale |-> scale]

\* VideoReader.frames_left
FramesLeft == Len(video) - frame_idx

\* VideoReader.__init__(filename, start_frame)
InitReader ==
    /\ kind = "video"
    /\ real_dataset_size = 0
    /\ dataset_size = 0
    /\ double_with_flipped = FALSE
    /\ repetitions_per_epoche = 1
    /\ file_name_list = <<>>
    /\ indices = <<>>
    /\ row = 0
    /\ InitHistory
    /\ NoSampler
    /\ fixed_batch_size = 0
    /\ \E n \in 1..MaxVideoFrames : video = VideoOf(n)
    /\ frame_idx \in {0, 1}
    /\ frame = None

\* the calls leave the datasets alone
ReaderCall(op, ok) ==
    /\ last' = [NoCall(op) EXCEPT !.ok = ok]
    /\ UNCHANGED <<config, fixed_batch_size, samplerConfig, itemVars, indices, row,
                   batch, served, sinceAuto, resetsInRow, video>>

\* VideoReader.next_frame(scale)
NextFrame(scale) ==
    /\ kind = "video"
    /\ IF Len(video) <= frame_idx
       THEN \* return None
            /\ frame' = None
            /\ frame_idx' = frame_idx
            /\ ReaderCall("next_frame", TRUE)
       ELSE IF Indexable(video, frame_idx)
       THEN /\ frame' = Resized(Item(video, frame_idx), scale)
            /\ frame_idx' = frame_idx + 1
            /\ ReaderCall("next_frame", TRUE)
       ELSE \* IndexError
            /\ frame' = None
            /\ frame_idx' = frame_idx
            /\ ReaderCall("next_frame", FALSE)

\* VideoReader.goto_frame(frame_idx)
GotoFrame(idx) ==
    /\ kind = "video"
    /\ frame_idx' = idx
    /\ frame' = frame
    /\ ReaderCall("goto_frame", TRUE)

\* VideoReader.skip_frames(count): self.goto_frame(self._frame_idx + count)
SkipFrames(count) ==
    /\ kind = "video"
    /\ frame_idx + count \in FramePositions
    /\ frame_idx' = frame_idx + count
    /\ frame' = frame
    /\ ReaderCall("skip_frames", TRUE)

NextReader ==
    \/ \E scale \in {1, 2} : NextFrame(scale)
    \/ \E idx \in FramePositions : GotoFrame(idx)
    \/ \E count \in 0..(MaxVideoFrames + 1) : SkipFrames(count)

SpecReader == InitReader /\ [][NextReader]_vars

(* ------------------------------- claims -------------------------------- *)
IsUcfCall == kind = "ucf_eval" /\ last.op = "get_batch"

ServedIdx == [i \in 1..Len(served) |-> served[i].idx]

\* C1 (as claimed): every UCF-101 evaluation get_batch(batch_size) with
\* 1 <= batch_size <= real_dataset_size gets an index window of exactly
\* batch_size entries, so the length assertion never fires and a batch is
\* returned.
C1_WindowUpToCatalogSize ==
    (IsUcfCall /\ last.b >= 1 /\ last.b <= real_dataset_size)
        => (last.len = last.b /\ last.ok)

\* C2: a UCF-101 evaluation get_batch(batch_size) that returns holds exactly
\* batch_size input and batch_size target sequences; when the index window has
\* another length the call raises instead, returns nothing, and does not
\* advance row.
C2_ExactBatchOrAbort ==
    [][(kind = "ucf_eval" /\ last'.op = "get_batch") =>
          IF last'.len = last'.b
          THEN /\ last'.ok
               /\ Len(batch'.inputs) = last'.b
               /\ Len(batch'.targets) = last'.b
          ELSE /\ ~last'.ok
               /\ batch'.inputs = <<>> /\ batch'.targets = <<>>
               /\ row' <= row]_vars

C2_Witness == IsUcfCall /\ ~last.ok /\ last.len < last.b /\ row > 0

\* C3 (as claimed): when get_batch (batch_size < size) makes the automatic
\* reset, at least `size` samples have been returned since the automatic reset
\* before it (measured where no explicit reset() falls between the two).
C3_FullPassBetweenAutoResets ==
    (IsUcfCall /\ last.auto /\ last.gap >= 0 /\ last.b < dataset_size)
        => last.gap >= dataset_size

\* C3 (amended): get_batch makes the automatic reset exactly when
\* row + batch_size >= size, that is before the pass is complete: the samples
\* returned since the previous reset are then at least size - batch_size and
\* fewer than size.
C3_AutoResetCutsPassShort ==
    [][(kind = "ucf_eval" /\ last'.op = "get_batch") =>
          /\ last'.auto <=> (row + last'.b >= dataset_size)
          /\ last'.auto =>
                /\ Len(served) >= dataset_size - last'.b
                /\ Len(served) < dataset_size
                /\ row' = (IF last'.ok THEN last'.b ELSE 0)]_vars

C3_Witness ==
    IsUcfCall /\ last.auto /\ last.ok /\ last.b < dataset_size
        /\ last.gap >= 0 /\ last.gap < dataset_size

\* C4 (as claimed): with double_with_flipped, the samples served at virtual
\* rows p and p + N (0 <= p < N) are the same stored item in opposite flip
\* states.
C4_SecondPassIsFlippedVariant ==
    double_with_flipped =>
        \A i, j \in 1..Len(served) :
            (served[i].vrow < real_dataset_size
                /\ served[j].vrow = served[i].vrow + real_dataset_size)
            => (served[i].idx = served[j].idx /\ served[i].flip # served[j].flip)

WrapCycle(perm) ==
    PySlice(perm, 0, 4) \o PySlice(perm, 4, 8)
        \o (PySlice(perm, 8, 10) \o PySlice(perm, 0, 2))

ThirdCallWraps ==
    /\ last'.ok /\ ~last'.auto
    /\ indices' = indices
    /\ row' = 12
    /\ [i \in 1..Len(batch'.inputs) |-> batch'.inputs[i].file]
          = [i \in 1..4 |-> file_name_list[(PySlice(indices, 8, 10)
                                            \o PySlice(indices, 0, 2))[i] + 1]]
    /\ [i \in 1..Len(served') |-> served'[i].idx] = WrapCycle(indices)
    /\ {served'[i].idx : i \in 1..Len(served')} = Range(indices)
    /\ \A i, j \in 1..10 : i # j => served'[i].idx # served'[j].idx

\* C6 (as claimed): true_size 10, batch_size 4, any repetitions_per_epoche and
\* doubling: the third get_batch after a reset (the one entered with row = 8)
\* is served at row 8 of the same permutation, wrapping around, and the three
\* batches together hold every permutation element.
C6_ThirdBatchWrapsAlways ==
    [][(real_dataset_size = 10 /\ row = 8 /\ last'.op = "get_batch" /\ last'.b = 4)
          => ThirdCallWraps]_vars

\* C6 (amended): the same, provided the visible size exceeds 12
\* (repetitions_per_epoche >= 2 or doubling); with size 10 the third call makes
\* the automatic reset instead.
C6_ThirdBatchWrapsWhenSizeAllows ==
    [][(real_dataset_size = 10 /\ row = 8 /\ last'.op = "get_batch" /\ last'.b = 4)
          => IF dataset_size > 12
             THEN ThirdCallWraps
             ELSE last'.auto /\ row' = 4]_vars

C6_Witness ==
    /\ real_dataset_size = 10 /\ IsUcfCall /\ last.b = 4 /\ last.ok
    /\ row = 12 /\ Len(served) = 12
    /\ ServedIdx = WrapCycle(indices)
    /\ indices # PyRange(10)

\* C7: in every reachable state the permutation holds every index of
\* [0, true_size) exactly once, and row decreases only in a step that resets.
C7_PermutationAndRow ==
    /\ [](/\ Len(indices) = real_dataset_size
          /\ Range(indices) = 0..(real_dataset_size - 1))
    /\ [][row' < row => (last'.op = "reset" \/ last'.auto)]_vars

C7_Witness ==
    /\ last.op = "get_batch" /\ ~last.auto /\ row > last.b
    /\ indices # PyRange(real_dataset_size)

\* C8: a reset(), also one that follows another reset(), leaves row = 0 and
\* changes only the order of the permutation: its length and elements, the
\* size and the catalog stay.
C8_ResetOnlyReorders ==
    [][last'.op = "reset" =>
          /\ row' = 0
          /\ Len(indices') = Len(indices)
          /\ Range(indices') = Range(indices)
          /\ dataset_size' = dataset_size
          /\ real_dataset_size' = real_dataset_size
          /\ file_name_list' = file_name_list]_vars

C8_Witness ==
    /\ resetsInRow = 2 /\ last.op = "reset" /\ row = 0
    /\ indices # PyRange(real_dataset_size)

Gating == crop_size # None /\ skip_less_movement

\* the sample of the item is complete and every frame of it was cut by
\* attempt number try at the offsets drawn last
SampleOfTry(try) ==
    /\ Len(inputs) = InputLen
    /\ Len(targets) = TargetLen
    /\ \A f \in Range(inputs) \cup Range(targets) :
          f.try = try /\ f.oy = offset_y /\ f.ox = offset_x

\* C9: with cropping and motion gating at most MAX_TRIES = 100 crops are made
\* per batch item; when the 99 before it were rejected the crop of the 100th
\* attempt is the sample; the loop always ends with a sample for the item.
C9_BoundedRetry ==
    /\ [](Gating =>
            /\ candidates <= MAX_TRIES
            /\ filterCalls <= MAX_TRIES
            /\ pc = "loop" =>
                  candidates = retry /\ rejected = retry /\ retry < MAX_TRIES
            /\ pc = "done" =>
                  /\ candidates >= 1
                  /\ SampleOfTry(candidates)
                  /\ rejected < MAX_TRIES - 1 => candidates = rejected + 1
                  /\ rejected >= MAX_TRIES - 1 => candidates = MAX_TRIES)
    /\ (pc = "loop") ~> (pc = "done")

C9_Witness ==
    /\ Gating /\ pc = "done"
    /\ candidates = MAX_TRIES /\ rejected >= MAX_TRIES - 1
    /\ SampleOfTry(MAX_TRIES)
    /\ ~EnoughL2Movement(current_seq, kind, inputs)

\* C10: with skip_less_movement false, or with crop_size None, the first
\* candidate of every batch item is the sample: one attempt, and the motion
\* filter is never evaluated.
C10_UngatedTakesFirst ==
    (~skip_less_movement \/ crop_size = None) =>
        /\ filterCalls = 0
        /\ rejected = 0
        /\ pc = "loop" => candidates = 0
        /\ pc = "done" => candidates = 1 /\ SampleOfTry(1)

C10_Witness ==
    /\ pc = "done" /\ candidates = 1 /\ filterCalls = 0
    /\ skip_less_movement /\ crop_size = None
    /\ ~EnoughL2Movement(current_seq, kind, inputs)

\* the frames given to the filter all hold the same picture
IdenticalFrames ==
    \A i, j \in 1..Len(inputs) :
        current_seq[inputs[i].fidx + 1] = current_seq[inputs[j].fidx + 1]

\* the squared L2 difference of the frames i and i + 1 on the scale [-1, 1]
\* (the 0..255 difference divided by 127.5) is at least 25 x frame count
PairReaches(i) ==
    4 * SqDiff(current_seq, kind, inputs[i], inputs[i + 1])
        >= MIN_L2_DIFF_PER_FRAME * Len(inputs) * PIXEL_SCALE * PIXEL_SCALE

\* C11: both motion filters return false for identical frames and for fewer
\* than two frames, and true for at least two frames of which every
\* consecutive pair has a scaled squared L2 difference of at least
\* 25 x frame count.
C11_FilterVerdicts ==
    pc = "filtered" =>
        /\ Len(inputs) < 2 => verdict = <<FALSE>>
        /\ IdenticalFrames => verdict = <<FALSE>>
        /\ (Len(inputs) >= 2 /\ \A i \in 1..(Len(inputs) - 1) : PairReaches(i))
              => verdict = <<TRUE>>

C11_Witness ==
    /\ pc = "filtered" /\ kind = "mspacman"
    /\ Len(inputs) >= 3
    /\ \A i \in 1..(Len(inputs) - 1) : PairReaches(i)
    /\ ~IdenticalFrames
    /\ verdict = <<TRUE>>

\* the item has been sampled: its input and target frames are in place
ItemSampled ==
    /\ pc \in {"done", "scaled"}
    /\ Len(inputs) = InputLen
    /\ Len(targets) = TargetLen

\* C12: Ms. Pac-Man with cropping: a sample whose accepted crop reaches into
\* the HUD (offset_y + crop height > HUD_Y) has no input frame and no target
\* frame flipped, whatever the flip draw was.
C12_HudCropNeverFlipped ==
    (kind = "mspacman" /\ crop_size # None /\ ItemSampled
        /\ offset_y + crop_size[1] > HUD_Y)
    => \A f \in Range(inputs) \cup Range(targets) :
          ~f.flip /\ f.oy = offset_y /\ f.ox = offset_x

C12_Witness ==
    /\ kind = "mspacman" /\ crop_size # None /\ ItemSampled
    /\ offset_y + crop_size[1] > HUD_Y
    /\ offset_y < HUD_Y
    /\ drawn_flip
    /\ \A f \in Range(inputs) \cup Range(targets) : ~f.flip

\* C13: every crop offset drawn by the Ms. Pac-Man and UCF-101 evaluation
\* loaders satisfies 0 <= offset_x <= frame width - crop width and
\* 0 <= offset_y <= frame height - crop height; with a crop size not larger
\* than the frame, the rectangle cut lies inside the frame and has exactly the
\* crop size.
C13_CropsInsideFrame ==
    (kind \in {"mspacman", "ucf_eval"} /\ crop_size # None) =>
        /\ crops_inside
        /\ ItemSampled =>
              /\ 0 <= offset_x /\ offset_x <= FrameWidth(kind) - crop_size[2]
              /\ 0 <= offset_y /\ offset_y <= FrameHeight(kind) - crop_size[1]
              /\ \A f \in Range(inputs) \cup Range(targets) :
                    /\ f.ox = offset_x /\ f.oy = offset_y
                    /\ f.h = crop_size[1] /\ f.w = crop_size[2]
                    /\ f.oy + f.h <= FrameHeight(kind)
                    /\ f.ox + f.w <= FrameWidth(kind)

C13_Witness ==
    /\ kind = "ucf_eval" /\ crop_size # None /\ ItemSampled
    /\ rejected >= 1
    /\ crops_inside
    /\ offset_x = UCF_FRAME_WIDTH - crop_size[2] /\ offset_x > 0
    /\ offset_y = UCF_FRAME_HEIGHT - crop_size[1] /\ offset_y > 0

\* C14: every start index chosen satisfies 0 <= start and
\* start + input_seq_length + target_seq_length <= frame count of the chosen
\* sequence; every frame index read for the two windows is valid, and the
\* target window starts where the input window ends.
C14_WindowInsideSequence ==
    (kind \in {"mspacman", "ucf_eval"} /\ pc \in {"loop", "done", "scaled"}) =>
        /\ 0 <= start_idx
        /\ start_idx + InputLen + TargetLen <= Len(current_seq)
        /\ \A f \in Range(inputs) \cup Range(targets) :
              0 <= f.fidx /\ f.fidx < Len(current_seq)
        /\ \A i \in 1..Len(inputs) : inputs[i].fidx = start_idx + i - 1
        /\ \A i \in 1..Len(targets) : targets[i].fidx = start_idx + InputLen + i - 1
        /\ ItemSampled => targets[1].fidx = inputs[InputLen].fidx + 1

C14_Witness ==
    /\ kind = "mspacman" /\ ItemSampled
    /\ start_idx > 0
    /\ start_idx + InputLen + TargetLen = Len(current_seq)
    /\ targets[TargetLen].fidx = Len(current_seq) - 1

\* a sequence with fewer frames than the window was chosen for the item
ShortSequenceChosen ==
    /\ kind \in {"mspacman", "ucf_eval"}
    /\ current_seq # <<>>
    /\ Len(current_seq) < InputLen + TargetLen

\* C15 (as claimed): when the sequence chosen for a batch item has fewer
\* frames than input_seq_length + target_seq_length, get_batch aborts with an
\* error: no retry with another start or sequence, no frame of that sequence
\* read, no batch returned.
C15_ShortSequenceAbortsUnread ==
    ShortSequenceChosen =>
        /\ pc = "raised"
        /\ candidates = 0 /\ retry = 0
        /\ inputs = <<>> /\ targets = <<>>
        /\ frames_read = 0

\* C15 (amended): get_batch aborts with an error, without a retry and without
\* a batch; Ms. Pac-Man has read no frame of the sequence by then, UCF-101
\* evaluation has read the whole serialized sequence before it draws the start.
C15_ShortSequenceAborts ==
    /\ [](ShortSequenceChosen =>
            /\ pc = "raised"
            /\ candidates = 0 /\ retry = 0
            /\ inputs = <<>> /\ targets = <<>>
            /\ frames_read = (IF kind = "mspacman" THEN 0 ELSE Len(current_seq)))
    /\ [][ShortSequenceChosen' => batch' = batch]_vars

C15_Witness ==
    /\ ShortSequenceChosen /\ kind = "ucf_eval"
    /\ pc = "raised"
    /\ frames_read = Len(current_seq) /\ frames_read > 0

\* C16 (as claimed): a crop_size not smaller than the source frame in height
\* or in width makes the constructor fail, for Ms. Pac-Man, UCF-101 training
\* and UCF-101 evaluation.
C16_OversizeCropFailsConstruction ==
    (crop_size # None
        /\ (crop_size[1] >= FrameHeight(kind) \/ crop_size[2] >= FrameWidth(kind)))
    => pc = "failed"

\* C17: the visible size is true size x repetitions_per_epoche for
\* Ms. Pac-Man and true size x (2 if double_with_flipped else 1) x
\* repetitions_per_epoche for UCF-101 evaluation, whose permutation always has
\* true size entries.
C17_VisibleSize ==
    /\ kind = "mspacman" =>
          dataset_size = real_dataset_size * repetitions_per_epoche
    /\ kind = "ucf_eval" =>
          /\ dataset_size = real_dataset_size
                              * (IF double_with_flipped THEN 2 ELSE 1)
                              * repetitions_per_epoche
          /\ Len(indices) = real_dataset_size
          /\ Len(file_name_list) = real_dataset_size

C17_Witness ==
    /\ kind = "ucf_eval" /\ double_with_flipped /\ repetitions_per_epoche >= 2
    /\ row > 2 * real_dataset_size
    /\ dataset_size = 2 * real_dataset_size * repetitions_per_epoche
    /\ Len(indices) = real_dataset_size
    /\ indices # PyRange(real_dataset_size)

\* the values of the arrays returned for the item
ReturnedValues ==
    UNION ({batch.inputs[1][i] : i \in 1..Len(batch.inputs[1])}
           \cup {batch.targets[1][i] : i \in 1..Len(batch.targets[1])})

\* C18: every value of the arrays returned by get_batch of the Ms. Pac-Man
\* and UCF-101 evaluation loaders is an 8-bit pixel value (0..255) divided by
\* 255, and so lies in [0, 1].
C18_UnitRange ==
    pc = "scaled" =>
        /\ Len(batch.inputs[1]) = InputLen
        /\ Len(batch.targets[1]) = TargetLen
        /\ \A x \in ReturnedValues :
              /\ x.den = 255
              /\ x.num \in 0..255
              /\ 0 <= x.num /\ x.num <= x.den

C18_Witness ==
    /\ pc = "scaled"
    /\ \E x \in ReturnedValues : x.num = 255 /\ x.den = 255
    /\ crop_size # None

\* C19: an index_range (start, end) restricts the Ms. Pac-Man catalog to the
\* sorted sequence folders at positions start..end inclusive, in order; the
\* training catalog (0..465) and the validation catalog (466..516) share no
\* folder.
C19_IndexRangeInclusive ==
    [][(pc = "new" /\ pc' = "idle" /\ index_range # None) =>
          LET listed == Range(numbered_folder_paths)
              kept == numbered_folder_paths'
              start == index_range[1]
              end == index_range[2]
              n == Len(numbered_folder_paths)
          IN  /\ Len(kept) = Max(0, Min(end, n - 1) - start + 1)
              /\ Range(kept) \subseteq listed
              /\ \A i \in 1..(Len(kept) - 1) : kept[i] < kept[i + 1]
              /\ kept # <<>> =>
                    /\ Cardinality({y \in listed : y < kept[1]}) = start
                    /\ Cardinality({y \in listed : kept[1] <= y /\ y <= kept[Len(kept)]})
                          = Len(kept)
              /\ Len(data') = Len(kept)
              /\ Range(IndexRange(Sorted(numbered_folder_paths), TRAIN_RANGE))
                    \cap Range(IndexRange(Sorted(numbered_folder_paths), VALID_RANGE))
                 = {}]_vars

C19_Witness ==
    /\ pc = "idle" /\ index_range = VALID_RANGE
    /\ Len(numbered_folder_paths) = 51
    /\ numbered_folder_paths[1] = 466 /\ numbered_folder_paths[51] = 516
    /\ real_dataset_size = 51

\* C20 (as claimed): Ms. Pac-Man: the flip applied to a candidate crop depends
\* only on the flip draw of the item and on the candidate's own offset: a
\* sample whose crop excludes the HUD is flipped exactly when the draw chose
\* to flip, also after a rejected attempt whose crop included the HUD.
C20_FlipFollowsDrawOutsideHud ==
    (kind = "mspacman" /\ ItemSampled
        /\ (crop_size = None \/ offset_y + crop_size[1] <= HUD_Y))
    => \A f \in Range(inputs) \cup Range(targets) : f.flip = drawn_flip

\* the catalog indices of the files of a batch
BatchIdx(items) ==
    [i \in 1..Len(items) |->
        CHOOSE x \in 0..(real_dataset_size - 1) : file_name_list[x + 1] = items[i].file]

\* C21: UCF-101 evaluation, batch_size < true_size: item i of the batch is the
\* catalog entry permutation[(row + i) mod true_size], row and permutation
\* taken after the reset check; a window that crosses the end of the
\* permutation is its tail followed by its head; row grows by batch_size.
C21_WindowWrapsModulo ==
    [][(kind = "ucf_eval" /\ last'.op = "get_batch" /\ last'.b < real_dataset_size) =>
          LET b == last'.b
              n == real_dataset_size
              row1 == IF last'.auto THEN 0 ELSE row
              perm == indices'
              start == row1 % n
          IN  /\ last'.ok
              /\ Len(batch'.inputs) = b /\ batch'.targets = batch'.inputs
              /\ \A i \in 0..(b - 1) :
                    batch'.inputs[i + 1].file = file_name_list[perm[((row1 + i) % n) + 1] + 1]
              /\ start + b > n =>
                    BatchIdx(batch'.inputs) =
                        SubSeq(perm, start + 1, n) \o SubSeq(perm, 1, start + b - n)
              /\ ~last'.auto => perm = indices
              /\ row' = row1 + b]_vars

C21_Witness ==
    /\ IsUcfCall /\ last.ok /\ ~last.auto
    /\ last.b >= 2 /\ last.b < real_dataset_size
    /\ ((row - last.b) % real_dataset_size) + last.b > real_dataset_size
    /\ indices # PyRange(real_dataset_size)
    /\ BatchIdx(batch.inputs)[1] = indices[real_dataset_size]
    /\ BatchIdx(batch.inputs)[2] = indices[1]

\* the sum of the squared differences of the pairs 1..i of the frames given
\* to the filter, in units of the 0..255 pixel scale
RECURSIVE SumSq(_)
SumSq(i) ==
    IF i < 1 THEN 0
    ELSE SumSq(i - 1) + SqDiff(current_seq, kind, inputs[i], inputs[i + 1])

\* the squared difference of the last two frames given to the filter
LastPairSq == SqDiff(current_seq, kind, inputs[Len(inputs) - 1], inputs[Len(inputs)])

\* C22: for n >= 2 frames the Ms. Pac-Man motion filter returns true exactly
\* when the squared difference of the last two frames is nonzero and the
\* scaled squared L2 difference summed over all consecutive pairs is at least
\* 25 x n; identical last frames are rejected whatever the earlier pairs.
C22_ZeroCheckThenFinalSum ==
    (pc = "filtered" /\ kind = "mspacman" /\ Len(inputs) >= 2) =>
        /\ verdict = << /\ LastPairSq # 0
                        /\ 4 * SumSq(Len(inputs) - 1)
                             >= MIN_L2_DIFF_PER_FRAME * Len(inputs) * PIXEL_SCALE * PIXEL_SCALE >>
        /\ LastPairSq = 0 => verdict = <<FALSE>>

C22_Witness ==
    /\ pc = "filtered" /\ kind = "mspacman" /\ Len(inputs) = 3
    /\ LastPairSq = 0
    /\ PairReaches(1)
    /\ verdict = <<FALSE>>

C24_FramesReadOnce ==
    /\ [](kind = "mspacman" =>
            /\ pc = "loop" =>
                  /\ read_log = [i \in 1..InputLen |-> start_idx + i - 1]
                  /\ frames_read = InputLen
            /\ ItemSampled =>
                  /\ read_log = [i \in 1..(InputLen + TargetLen) |-> start_idx + i - 1]
                  /\ frames_read = InputLen + TargetLen
                  /\ \A i \in 1..InputLen : inputs[i].fidx = read_log[i]
                  /\ \A i \in 1..TargetLen : targets[i].fidx = read_log[InputLen + i])
    /\ [][(kind = "mspacman" /\ pc = "loop" /\ read_log' # read_log) =>
              /\ pc' = "done"
              /\ rejected' = rejected
              /\ \A f \in Range(targets') : f.try = candidates']_vars

C24_Witness ==
    /\ kind = "mspacman" /\ ItemSampled
    /\ rejected >= 2
    /\ start_idx > 0
    /\ frames_read = InputLen + TargetLen
    /\ read_log = [i \in 1..(InputLen + TargetLen) |-> start_idx + i - 1]

\* C25: every sample returned by the Ms. Pac-Man and UCF-101 evaluation
\* loaders has one (offset_y, offset_x, flip) triple, that of the attempt whose
\* crop became the sample, on every input frame and every target frame; no
\* frame carries the crop or flip of an earlier, rejected attempt.
C25_OneCropSpecPerSample ==
    (kind \in {"mspacman", "ucf_eval"} /\ ItemSampled) =>
        /\ \A f \in Range(inputs) \cup Range(targets) :
              /\ f.oy = offset_y /\ f.ox = offset_x
              /\ f.flip = do_flip
              /\ f.try = candidates
              /\ f.h = inputs[1].h /\ f.w = inputs[1].w
        /\ candidates >= 1
        /\ rejected < MAX_TRIES => candidates = rejected + 1

C25_Witness ==
    /\ kind = "mspacman" /\ ItemSampled /\ crop_size # None
    /\ rejected >= 1 /\ candidates = rejected + 1
    /\ do_flip /\ offset_x > 0 /\ offset_y > 0
    /\ \A f \in Range(inputs) \cup Range(targets) :
          f.flip /\ f.ox = offset_x /\ f.oy = offset_y /\ f.try = candidates

\* C26: get_batch and reset never change the catalog or the configuration:
\* in the Ms. Pac-Man loader they change no dataset state at all, in the
\* UCF-101 evaluation loader only row and the order of the permutation.
C26_CatalogAndConfigFixed ==
    [][/\ <<kind, real_dataset_size, dataset_size, double_with_flipped,
            repetitions_per_epoche>>' =
          <<kind, real_dataset_size, dataset_size, double_with_flipped,
            repetitions_per_epoche>>
       /\ <<file_name_list, index_range, numbered_folder_paths, data>>' =
          <<file_name_list, index_range, numbered_folder_paths, data>>
       /\ <<crop_size, skip_less_movement, random_flip>>' =
          <<crop_size, skip_less_movement, random_flip>>
       /\ kind = "mspacman" => (indices' = indices /\ row' = row)
       /\ kind = "ucf_eval" =>
             /\ Len(indices') = Len(indices)
             /\ Range(indices') = Range(indices)]_vars

C26_Witness ==
    /\ kind = "mspacman" /\ pc = "scaled" /\ last.op = "reset" /\ rejected >= 1
    /\ data = SeqOf(SourceSeqs) /\ row = 0 /\ indices = <<>>
    /\ crop_size # None /\ skip_less_movement

\* C27 (as claimed): MNIST get_batch(batch_size), batch_size >= 1, returns
\* exactly batch_size image/label pairs taken at the same permutation indices,
\* or fails loudly; it never silently returns fewer pairs than asked for.
C27_MnistExactBatchOrAbort ==
    (kind = "mnist" /\ last.op = "get_batch" /\ last.b >= 1) =>
        \/ ~last.ok /\ batch.inputs = <<>> /\ batch.targets = <<>>
        \/ /\ last.ok
           /\ Len(batch.inputs) = last.b
           /\ batch.targets = batch.inputs

\* C28: UCF-101 evaluation, any sequence of reset() and get_batch(b) with one
\* fixed b < size: 0 <= row < size, row is a multiple of b, and every virtual
\* row served lies in [0, size).
C28_RowInsideVisibleSize ==
    (kind = "ucf_eval" /\ fixed_batch_size >= 1 /\ fixed_batch_size < dataset_size) =>
        /\ 0 <= row /\ row < dataset_size
        /\ row % fixed_batch_size = 0
        /\ \A i \in 1..Len(served) :
              0 <= served[i].vrow /\ served[i].vrow < dataset_size
        /\ (last.op = "get_batch" /\ last.ok) =>
              /\ Len(served) = row
              /\ served[row].vrow = row - 1

C28_Witness ==
    /\ kind = "ucf_eval" /\ last.op = "get_batch" /\ last.ok /\ ~last.auto
    /\ fixed_batch_size >= 2
    /\ row >= 2 * fixed_batch_size
    /\ row > real_dataset_size
    /\ row + fixed_batch_size >= dataset_size
    /\ served[Len(served)].vrow = row - 1

\* C29 (as claimed): UCF-101 training with cropping and skip_less_movement:
\* the loop counter starts at MAX_TRIES = 100, goes down by one per iteration
\* and never below 0; the loop ends as soon as the cropped inputs have enough
\* motion or the counter is 0, and always ends; no more than 100 random crops
\* are made per sample.
C29_TrainLoopBounded ==
    /\ [](kind = "ucf_train" /\ Gating =>
            /\ 0 <= retry /\ retry <= MAX_TRIES
            /\ candidates <= MAX_TRIES)
    /\ [][(kind = "ucf_train" /\ Gating) =>
            /\ pc' = "loop" /\ pc # "loop" => retry' = MAX_TRIES
            /\ pc = "loop" =>
                  /\ pc' = "loop" => retry' = retry - 1
                  /\ pc' = "done" <=>
                        (retry = 0 \/ ~NotEnoughMovement(current_seq, kind, inputs))]_vars
    /\ (kind = "ucf_train" /\ pc = "loop") ~> (pc = "done")

\* the number of next_frame calls from position idx on that return a frame
RECURSIVE FramesToCome(_)
FramesToCome(idx) ==
    IF idx < Len(video) /\ Indexable(video, idx) THEN 1 + FramesToCome(idx + 1) ELSE 0

\* C30 (as claimed): a VideoReader of N frames, after any next_frame,
\* skip_frames and goto_frame calls: next_frame returns a frame and advances
\* frame_idx by one when a frame is left, and returns None leaving frame_idx
\* as it is otherwise; frames_left is the number of further next_frame calls
\* that return a frame, and never negative.
C30_FramesLeftCountsNextFrames ==
    /\ [](kind = "video" =>
            /\ FramesLeft >= 0
            /\ FramesLeft = FramesToCome(frame_idx))
    /\ [][(kind = "video" /\ last'.op = "next_frame") =>
            IF FramesLeft > 0
            THEN last'.ok /\ frame' # None /\ frame_idx' = frame_idx + 1
            ELSE last'.ok /\ frame' = None /\ frame_idx' = frame_idx]_vars

====
